---- MODULE Spec2Model ----
(***************************************************************************)
(* Work-session lifecycle of Control-Horario: the useSession hook (one     *)
(* controller per browser tab), the work_sessions / work_pauses tables     *)
(* with their triggers, and the duration helpers.                          *)
(*                                                                         *)
(* Instants are milliseconds (Date.getTime()).  A timestamp column that is *)
(* NULL is the value Null.  Strings built by formatTime are sequences of   *)
(* one-character strings.                                                  *)
(***************************************************************************)
EXTENDS Integers, Sequences, FiniteSets

\* ---------------------------------------------------------------- bounds
MaxSessions == 2
MaxPauses == 2
MaxClock == 1
MaxOps == 3
MaxFaults == 1

\* ------------------------------------------------------------- constants
MsPerSecond == 1000
MaxHours == 16
MsPerHour == 3600 * MsPerSecond
\* start_time < NOW() - INTERVAL '24 hours'
StaleHours == 24

Null == -1
Clients == {1, 2}
ClockSteps == {500, 1000}
OldAges == {1800000, 90000000}

\* ------------------------------------------------- formatTime (HH:MM:SS)
DigitChar(d) == <<"0", "1", "2", "3", "4", "5", "6", "7", "8", "9">>[d + 1]

RECURSIVE NumToString(_)
NumToString(n) == IF n < 10 THEN <<DigitChar(n)>>
               ELSE NumToString(n \div 10) \o <<DigitChar(n % 10)>>

PadStart2(s) == IF Len(s) < 2 THEN <<"0">> \o s ELSE s

formatTime(seconds) ==
    LET h == seconds \div 3600
        m == (seconds % 3600) \div 60
        s == seconds % 60
    IN  PadStart2(NumToString(h)) \o <<":">> \o PadStart2(NumToString(m))
          \o <<":">> \o PadStart2(NumToString(s))

Max(a, b) == IF a >= b THEN a ELSE b

\* --------------------------------------------------- calculateElapsedTime
\* The forEach of calculateElapsedTime: closed pauses are summed, an open
\* pause sets isCurrentlyPaused and overwrites currentPauseStart.
RECURSIVE ClosedPauseMs(_)
ClosedPauseMs(ps) ==
    IF ps = <<>> THEN 0
    ELSE (IF Head(ps).pause_end # Null
          THEN Head(ps).pause_end - Head(ps).pause_start ELSE 0)
         + ClosedPauseMs(Tail(ps))

RECURSIVE LastOpenStart(_)
LastOpenStart(ps) ==
    IF ps = <<>> THEN Null
    ELSE IF ps[Len(ps)].pause_end = Null THEN ps[Len(ps)].pause_start
    ELSE LastOpenStart(SubSeq(ps, 1, Len(ps) - 1))

\* As calculateElapsedTime, forgetting the pause that is still open.
calculateElapsedTime_closedOnly(start_time, work_pauses, nowMs) ==
    Max(0, ((nowMs - start_time) - ClosedPauseMs(work_pauses)) \div MsPerSecond)

calculateElapsedTime(start_time, work_pauses, nowMs) ==
    LET isCurrentlyPaused == \E i \in 1..Len(work_pauses) : work_pauses[i].pause_end = Null
        currentPauseStart == LastOpenStart(work_pauses)
        totalPauseMs == ClosedPauseMs(work_pauses)
                        + (IF isCurrentlyPaused THEN nowMs - currentPauseStart ELSE 0)
        netMs == (nowMs - start_time) - totalPauseMs
    IN  Max(0, netMs \div MsPerSecond)

\* ------------------------------------------------ endSession's arithmetic
RECURSIVE TotalPauseTimeMs(_, _)
TotalPauseTimeMs(ps, nowMs) ==
    IF ps = <<>> THEN 0
    ELSE ((IF Head(ps).pause_end # Null THEN Head(ps).pause_end ELSE nowMs)
          - Head(ps).pause_start)
         + TotalPauseTimeMs(Tail(ps), nowMs)

netWorkSeconds(start_time, ps, nowMs) ==
    Max(0, ((nowMs - start_time) - TotalPauseTimeMs(ps, nowMs)) \div MsPerSecond)

\* ------------------------------------------- utils/duration.calculateDuration
RECURSIVE totalPauseTime(_)
totalPauseTime(ps) ==
    IF ps = <<>> THEN 0
    ELSE (IF Head(ps).pause_end # Null
          THEN Head(ps).pause_end - Head(ps).pause_start ELSE 0)
         + totalPauseTime(Tail(ps))

\* As calculateDuration, without the clamp at zero.
calculateDuration_noClamp(startTime, endTime, ps) ==
    (endTime - startTime) - totalPauseTime(ps)

calculateDuration(startTime, endTime, ps) ==
    Max(0, (endTime - startTime) - totalPauseTime(ps))

\* ------------------------------------------------------------ the store
Open == {"active", "paused"}

\* validate_single_active_session, BEFORE INSERT OR UPDATE ON work_sessions:
\* TRUE when the trigger lets the row NEW (id, status) through.
\* As validate_single_active_session, checking inserts of new ids only.
validate_single_active_session_insertOnly(ss, id, status) ==
    ~(status \in Open /\ id = 0
      /\ \E j \in 1..Len(ss) : ss[j].status \in Open)

validate_single_active_session(ss, id, status) ==
    ~(status \in Open
      /\ \E j \in 1..Len(ss) : j # id /\ ss[j].status \in Open)

\* validate_max_session_duration, BEFORE INSERT OR UPDATE ON work_sessions.
validate_max_session_duration(start_time, end_time) ==
    ~(end_time # Null /\ end_time - start_time > MaxHours * MsPerHour)

TriggersPass(ss, id, row) ==
    /\ validate_single_active_session(ss, id, row.status)
    /\ validate_max_session_duration(row.start_time, row.end_time)

\* Row level security: every policy compares auth.uid() with the owner, so a
\* request without a signed-in user sees no row and may insert none.
RowVisible(auth) == auth

NewSession(start) ==
    [start_time |-> start, end_time |-> Null, status |-> "active", total_duration |-> <<>>]

\* insert into work_sessions ... returning the row: [ok, ss, id]
InsertSession(ss, auth, start) ==
    LET id == Len(ss) + 1
        row == NewSession(start)
    IN  IF RowVisible(auth) /\ TriggersPass(ss, 0, row)
        THEN [ok |-> TRUE, ss |-> Append(ss, row), id |-> id]
        ELSE [ok |-> FALSE, ss |-> ss, id |-> 0]

\* update work_sessions set status (, end_time, total_duration) where id = id.
\* A row the policies hide is not updated and no error is returned.
UpdateSession(ss, auth, id, row) ==
    IF ~RowVisible(auth) \/ id \notin 1..Len(ss)
    THEN [ok |-> TRUE, ss |-> ss]
    ELSE IF TriggersPass(ss, id, row)
         THEN [ok |-> TRUE, ss |-> [ss EXCEPT ![id] = row]]
         ELSE [ok |-> FALSE, ss |-> ss]

\* insert into work_pauses (session_id, pause_start): [ok, ps]
InsertPause(ps, auth, sid, start) ==
    IF RowVisible(auth)
    THEN [ok |-> TRUE, ps |-> Append(ps, [session_id |-> sid, pause_start |-> start, pause_end |-> Null])]
    ELSE [ok |-> FALSE, ps |-> ps]

\* update work_pauses set pause_end = t where session_id = sid and pause_end is null
ClosePauses_none(ps, auth, sid, t) == ps

ClosePauses(ps, auth, sid, t) ==
    IF ~RowVisible(auth) THEN ps
    ELSE [i \in 1..Len(ps) |->
            IF ps[i].session_id = sid /\ ps[i].pause_end = Null
            THEN [ps[i] EXCEPT !.pause_end = t] ELSE ps[i]]

\* select pause_start, pause_end from work_pauses where session_id = sid
RECURSIVE PausesOf(_, _)
PausesOf(ps, sid) ==
    IF ps = <<>> THEN <<>>
    ELSE (IF Head(ps).session_id = sid
          THEN <<[pause_start |-> Head(ps).pause_start, pause_end |-> Head(ps).pause_end]>>
          ELSE <<>>) \o PausesOf(Tail(ps), sid)

SelectPauses(ps, auth, sid) == IF RowVisible(auth) THEN PausesOf(ps, sid) ELSE <<>>

\* The snapshot a client holds of a session: the row joined with its pauses.
NoSession == [id |-> 0, start_time |-> 0, status |-> "none", work_pauses |-> <<>>]

Snapshot(ss, ps, id) ==
    [id |-> id, start_time |-> ss[id].start_time, status |-> ss[id].status,
     work_pauses |-> PausesOf(ps, id)]

OpenIds(ss) == {j \in 1..Len(ss) : ss[j].status \in Open}

\* select ... where status in ('active','paused') ... maybeSingle():
\* [data, error, code]; more than one row is the error PGRST116.
SelectOpenSession(ss, ps, auth) ==
    LET ids == IF RowVisible(auth) THEN OpenIds(ss) ELSE {}
    IN  IF ids = {} THEN [data |-> NoSession, error |-> FALSE, code |-> "none"]
        ELSE IF Cardinality(ids) = 1
             THEN [data |-> Snapshot(ss, ps, CHOOSE j \in ids : TRUE),
                   error |-> FALSE, code |-> "none"]
             ELSE [data |-> NoSession, error |-> TRUE, code |-> "PGRST116"]

\* ------------------------------------------------------------- the state
VARIABLES
    sessions,          \* work_sessions rows, a row's id is its index
    pauses,            \* work_pauses rows
    now,               \* Date.now()
    clock,             \* number of clock advances so far
    authed,            \* supabase.auth holds a signed-in user
    activeSession,     \* per client: useState activeSession (NoSession = null)
    elapsedTime,       \* per client: useState elapsedTime, seconds
    isPaused,          \* per client: useState isPaused
    loading,           \* per client: useState loading
    abandonedSession,  \* per client: useState abandonedSession
    timerRef,          \* per client: an interval is alive in timerRef.current
    intervals,         \* per client: how many intervals are alive
    hasInitialized,    \* per client: useRef hasInitialized
    tasks,             \* per client: the calls in flight, each at its await
    slots,             \* per client: how many calls may be in flight at once
    ops,               \* number of calls that went in flight
    faults,            \* number of remote calls that failed in transit
    ev,                \* the call the last step settled: resolve, reject or noop, and why
    fin,               \* input of the duration functions under test
    fout               \* their outputs

store == <<sessions, pauses>>
local == <<activeSession, elapsedTime, isPaused, loading, abandonedSession, timerRef, intervals,
          hasInitialized>>
vars == <<sessions, pauses, now, clock, authed, activeSession, elapsedTime, isPaused,
          loading, abandonedSession, timerRef, intervals, hasInitialized, tasks, slots, ops,
          faults, ev, fin, fout>>

NSlots == 2
Slots == 1..NSlots

NoAbandoned == [id |-> 0, timeMessage |-> <<>>]

Idle == [op |-> "idle", pc |-> "idle", sid |-> 0, start |-> 0, t |-> 0,
         dur |-> <<>>, data |-> NoSession, derr |-> FALSE]

NoEv == [c |-> 0, op |-> "none", res |-> "none", why |-> "none", sid |-> 0]
Ev(c, op, res, why) == [c |-> c, op |-> op, res |-> res, why |-> why, sid |-> 0]
EvOn(c, op, res, why, sid) == [c |-> c, op |-> op, res |-> res, why |-> why, sid |-> sid]

NoInput == [start |-> 0, end |-> 0, ps |-> <<>>]
NoOutput == [done |-> FALSE, elapsed |-> 0, net |-> 0, total |-> <<>>, duration |-> 0]

\* A session found open when the tab is loaded, left there by an earlier visit.
InitStores ==
    {[ss |-> <<>>, ps |-> <<>>, now |-> 0]}
    \cup {[ss |-> <<NewSession(0)>>,
           ps |-> <<[session_id |-> 1, pause_start |-> 600000, pause_end |-> 900500]>>,
           now |-> a] : a \in OldAges}
    \cup {[ss |-> <<[NewSession(0) EXCEPT !.status = "paused"]>>,
           ps |-> <<[session_id |-> 1, pause_start |-> 600000, pause_end |-> Null]>>,
           now |-> 1800000]}

InitLocal ==
    /\ activeSession = [c \in Clients |-> NoSession]
    /\ elapsedTime = [c \in Clients |-> 0]
    /\ isPaused = [c \in Clients |-> FALSE]
    /\ loading = [c \in Clients |-> TRUE]
    /\ abandonedSession = [c \in Clients |-> NoAbandoned]
    /\ timerRef = [c \in Clients |-> FALSE]
    /\ intervals = [c \in Clients |-> 0]
    /\ hasInitialized = [c \in Clients |-> FALSE]
    /\ tasks = [c \in Clients |-> [k \in Slots |-> Idle]]
    /\ ops = 0
    /\ faults = 0
    /\ clock = 0
    /\ ev = NoEv

Init ==
    /\ \E st \in InitStores : sessions = st.ss /\ pauses = st.ps /\ now = st.now
    /\ authed = TRUE
    /\ slots = [c \in Clients |-> 1]
    /\ InitLocal
    /\ fin = NoInput
    /\ fout = NoOutput

\* ------------------------------------------------------------- plumbing
FreeSlots(c) == {k \in 1..slots[c] : tasks[c][k].op = "idle"}
HasFree(c) == FreeSlots(c) # {}
FirstFree(c) == CHOOSE k \in FreeSlots(c) : \A j \in FreeSlots(c) : k <= j

Spawn(c, t) == tasks' = [tasks EXCEPT ![c][FirstFree(c)] = t]
Goto(c, k, t) == tasks' = [tasks EXCEPT ![c][k] = t]
Finish(c, k) == tasks' = [tasks EXCEPT ![c][k] = Idle]

At(c, k, op, pc) == tasks[c][k].op = op /\ tasks[c][k].pc = pc

\* A remote call may be lost or answered with an error in transit.
Faults == {FALSE} \cup (IF faults < MaxFaults THEN {TRUE} ELSE {})
Count(fault) == faults' = IF fault THEN faults + 1 ELSE faults

\* As TimerAlive, had the effect not returned early on isPaused.
TimerAlive_whilePaused(as, ip) == as.id # 0

\* The timer effect, deps [activeSession, isPaused]: when one of them changed
\* in the render, the cleanup clears the interval and the body, if a session
\* is tracked and not paused, recomputes the elapsed time and sets a new one.
TimerAlive(as, ip) == as.id # 0 /\ ~ip

\* The cleanup of the timer effect, on n intervals alive:
\* if (timerRef.current) clearInterval(timerRef.current)
EffectCleanup_none(n, timer) == n

EffectCleanup(n, timer) == IF timer THEN n - 1 ELSE n

\* One render of client c after a handler's continuation: the values set by
\* the handler (as, ip, el, ld), whether activeSession got a new object, and
\* timerRef.current as the handler left it.
Render(c, as, ip, el, ld, newObject, timer) ==
    LET rerun == newObject \/ ip # isPaused[c]
        held == IF timerRef[c] /\ ~timer THEN intervals[c] - 1 ELSE intervals[c]
        cleaned == IF rerun THEN EffectCleanup(held, timer) ELSE held
    IN  /\ activeSession' = [activeSession EXCEPT ![c] = as]
        /\ isPaused' = [isPaused EXCEPT ![c] = ip]
        /\ loading' = [loading EXCEPT ![c] = ld]
        /\ timerRef' = [timerRef EXCEPT ![c] = IF rerun THEN TimerAlive(as, ip) ELSE timer]
        /\ intervals' = [intervals EXCEPT ![c] =
              IF rerun /\ TimerAlive(as, ip) THEN cleaned + 1 ELSE cleaned]
        /\ elapsedTime' = [elapsedTime EXCEPT ![c] =
              IF rerun /\ TimerAlive(as, ip)
              THEN calculateElapsedTime(as.start_time, as.work_pauses, now)
              ELSE el]

Pure == UNCHANGED <<fin, fout>>
Env == UNCHANGED <<now, clock, authed, slots>>

\* -------------------------------------------------- loadActiveSession
\* The synchronous head of loadActiveSession: setLoading(true), then getUser.
EnterLoad_skipped(c, k) ==
    /\ Finish(c, k)
    /\ UNCHANGED loading

EnterLoad(c, k) ==
    /\ Goto(c, k, [tasks[c][k] EXCEPT !.pc = "loadGetUser"])
    /\ loading' = [loading EXCEPT ![c] = TRUE]

LoadGetUser(c, k) ==
    /\ tasks[c][k].pc = "loadGetUser"
    /\ \E fault \in Faults :
         /\ Count(fault)
         /\ IF authed /\ ~fault
            THEN /\ Goto(c, k, [tasks[c][k] EXCEPT !.pc = "loadQuery"])
                 /\ ev' = NoEv
                 /\ UNCHANGED local
            ELSE /\ Finish(c, k)
                 /\ loading' = [loading EXCEPT ![c] = FALSE]
                 /\ ev' = Ev(c, tasks[c][k].op, "resolve", "auth")
                 /\ UNCHANGED <<activeSession, elapsedTime, isPaused, abandonedSession,
                                timerRef, intervals, hasInitialized>>
    /\ UNCHANGED <<store, ops>> /\ Env /\ Pure

\* The query runs at the store; its answer travels back to the tab.
LoadQuery(c, k) ==
    /\ tasks[c][k].pc = "loadQuery"
    /\ \E fault \in Faults :
         LET r == SelectOpenSession(sessions, pauses, authed) IN
         /\ Count(fault)
         /\ Goto(c, k, [tasks[c][k] EXCEPT
                 !.pc = "loadApply",
                 !.data = IF fault THEN NoSession ELSE r.data,
                 !.derr = fault \/ (r.error /\ r.code # "PGRST116")])
         /\ ev' = NoEv
    /\ UNCHANGED <<store, ops, local>> /\ Env /\ Pure

LoadApply(c, k) ==
    LET t == tasks[c][k] IN
    /\ t.pc = "loadApply"
    /\ IF t.derr
       THEN /\ loading' = [loading EXCEPT ![c] = FALSE]
            /\ UNCHANGED <<activeSession, elapsedTime, isPaused, timerRef, intervals>>
       ELSE IF t.data.id # 0
       THEN Render(c, t.data, t.data.status = "paused",
                   calculateElapsedTime(t.data.start_time, t.data.work_pauses, now),
                   FALSE, TRUE, timerRef[c])
       ELSE Render(c, NoSession, FALSE, 0, FALSE, activeSession[c].id # 0, timerRef[c])
    /\ Finish(c, k)
    /\ ev' = Ev(c, t.op, "resolve", IF t.derr THEN "read" ELSE "ok")
    /\ UNCHANGED <<store, ops, faults, abandonedSession, hasInitialized>> /\ Env /\ Pure

\* ---------------------------------------------- checkAbandonedSessions
\* The initialization effect, guarded by hasInitialized.
InitEffect(c) ==
    /\ ~hasInitialized[c]
    /\ HasFree(c)
    /\ hasInitialized' = [hasInitialized EXCEPT ![c] = TRUE]
    /\ Spawn(c, [Idle EXCEPT !.op = "init", !.pc = "getUser"])
    /\ ev' = NoEv
    /\ UNCHANGED <<store, ops, faults, activeSession, elapsedTime, isPaused, loading,
                   abandonedSession, timerRef, intervals>> /\ Env /\ Pure

CheckGetUser(c, k) ==
    /\ At(c, k, "init", "getUser")
    /\ \E fault \in Faults :
         /\ Count(fault)
         /\ IF authed /\ ~fault
            THEN /\ Goto(c, k, [tasks[c][k] EXCEPT !.pc = "query"])
                 /\ ev' = NoEv
            ELSE /\ Finish(c, k)
                 /\ ev' = Ev(c, "init", "resolve", "auth")
    /\ UNCHANGED <<store, ops, local>> /\ Env /\ Pure

\* As timeMessage, had the hours branch been left out.
timeMessage_minutesOnly(msSinceStart) ==
    NumToString(msSinceStart \div (60 * MsPerSecond))
      \o <<" ", "m", "i", "n", "u", "t", "o", "s">>

\* `${Math.floor(hoursSinceStart)} horas` or `${minutes} minutos`
timeMessage(msSinceStart) ==
    IF msSinceStart >= MsPerHour
    THEN NumToString(msSinceStart \div MsPerHour) \o <<" ", "h", "o", "r", "a", "s">>
    ELSE NumToString(msSinceStart \div (60 * MsPerSecond))
           \o <<" ", "m", "i", "n", "u", "t", "o", "s">>

CheckQuery(c, k) ==
    /\ At(c, k, "init", "query")
    /\ \E fault \in Faults :
         LET r == SelectOpenSession(sessions, pauses, authed) IN
         /\ Count(fault)
         /\ IF fault \/ r.error
            THEN /\ Finish(c, k)
                 /\ ev' = Ev(c, "init", "resolve", "read")
                 /\ UNCHANGED local
            ELSE IF r.data.id # 0
            THEN /\ abandonedSession' = [abandonedSession EXCEPT ![c] =
                        [id |-> r.data.id,
                         timeMessage |-> timeMessage(now - r.data.start_time)]]
                 /\ Finish(c, k)
                 /\ ev' = Ev(c, "init", "resolve", "ok")
                 /\ UNCHANGED <<activeSession, elapsedTime, isPaused, loading, timerRef, intervals,
                                hasInitialized>>
            ELSE /\ EnterLoad(c, k)
                 /\ ev' = NoEv
                 /\ UNCHANGED <<activeSession, elapsedTime, isPaused, abandonedSession,
                                timerRef, intervals, hasInitialized>>
    /\ UNCHANGED <<store, ops>> /\ Env /\ Pure

\* ------------------------------------------------------------ startSession
\* if (activeSession) throw new Error("Ya hay una sesion activa")
StartGuard_off(c) == FALSE

StartGuard(c) == activeSession[c].id # 0

StartReject(c) ==
    /\ StartGuard(c)
    /\ ev' = Ev(c, "start", "reject", "guard")
    /\ UNCHANGED <<store, ops, faults, local, tasks>> /\ Env /\ Pure

StartInvoke(c) ==
    /\ ~StartGuard(c)
    /\ HasFree(c) /\ ops < MaxOps /\ Len(sessions) < MaxSessions
    /\ Spawn(c, [Idle EXCEPT !.op = "start", !.pc = "getUser"])
    /\ ops' = ops + 1
    /\ ev' = NoEv
    /\ UNCHANGED <<store, faults, local>> /\ Env /\ Pure

StartGetUser(c, k) ==
    /\ At(c, k, "start", "getUser")
    /\ \E fault \in Faults :
         /\ Count(fault)
         /\ IF authed /\ ~fault
            THEN /\ Goto(c, k, [tasks[c][k] EXCEPT !.pc = "insert", !.t = now])
                 /\ ev' = NoEv
            ELSE /\ Finish(c, k)
                 /\ ev' = Ev(c, "start", "reject", "auth")
    /\ UNCHANGED <<store, ops, local>> /\ Env /\ Pure

\* As StartThrow, had the session been tracked before the insert is answered.
StartThrow_optimistic(c, k) ==
    /\ ev' = Ev(c, "start", "reject", "write")
    /\ Render(c, [NoSession EXCEPT !.id = Len(sessions) + 1, !.status = "active",
                                   !.start_time = tasks[c][k].t],
              FALSE, 0, loading[c], TRUE, timerRef[c])
    /\ UNCHANGED <<sessions, abandonedSession, hasInitialized>>

\* if (error) throw error: nothing has been set yet.
StartThrow(c, k) ==
    /\ ev' = Ev(c, "start", "reject", "write")
    /\ UNCHANGED <<sessions, local>>

\* setActiveSession(data); setIsPaused(false); setElapsedTime(0)
StartApply_untracked(c, data) ==
    Render(c, activeSession[c], FALSE, 0, loading[c], FALSE, timerRef[c])

StartApply(c, data) ==
    Render(c, data, FALSE, 0, loading[c], TRUE, timerRef[c])

StartInsert(c, k) ==
    /\ At(c, k, "start", "insert")
    /\ Len(sessions) < MaxSessions
    /\ \E fault \in Faults :
         LET r == InsertSession(sessions, authed, tasks[c][k].t) IN
         /\ Count(fault)
         /\ IF fault \/ ~r.ok
            THEN StartThrow(c, k)
            ELSE /\ sessions' = r.ss
                 /\ StartApply(c, Snapshot(r.ss, pauses, r.id))
                 /\ ev' = Ev(c, "start", "resolve", "ok")
                 /\ UNCHANGED <<abandonedSession, hasInitialized>>
         /\ Finish(c, k)
    /\ UNCHANGED <<pauses, ops>> /\ Env /\ Pure

\* ------------------------------------------------------------ pauseSession
PauseGuard(c) == activeSession[c].id # 0 /\ ~(isPaused[c] \/ loading[c])

PauseNoop(c) ==
    /\ ~PauseGuard(c)
    /\ ev' = Ev(c, "pause", "noop", "guard")
    /\ UNCHANGED <<store, ops, faults, local, tasks>> /\ Env /\ Pure

PauseInvoke(c) ==
    LET as == activeSession[c] IN
    /\ PauseGuard(c)
    /\ HasFree(c) /\ ops < MaxOps /\ Len(pauses) < MaxPauses
    /\ Render(c, as, TRUE, calculateElapsedTime(as.start_time, as.work_pauses, now),
              TRUE, FALSE, FALSE)
    /\ Spawn(c, [Idle EXCEPT !.op = "pause", !.pc = "insertPause", !.sid = as.id, !.t = now])
    /\ ops' = ops + 1
    /\ ev' = NoEv
    /\ UNCHANGED <<store, faults, abandonedSession, hasInitialized>> /\ Env /\ Pure

\* As PauseRollback, with the finally block only.
PauseRollback_finallyOnly(c, k) ==
    /\ Render(c, activeSession[c], isPaused[c], elapsedTime[c], FALSE, FALSE, timerRef[c])
    /\ Finish(c, k)

\* catch: setIsPaused(false); finally: setLoading(false)
PauseRollback(c, k) ==
    /\ Render(c, activeSession[c], FALSE, elapsedTime[c], FALSE, FALSE, timerRef[c])
    /\ Finish(c, k)

\* As PauseInsert, had the handler not thrown on pauseError.
PauseInsert_ignoresError(c, k) ==
    /\ At(c, k, "pause", "insertPause")
    /\ \E fault \in Faults :
         LET r == InsertPause(pauses, authed, tasks[c][k].sid, tasks[c][k].t) IN
         /\ Count(fault)
         /\ pauses' = IF fault \/ ~r.ok THEN pauses ELSE r.ps
         /\ Goto(c, k, [tasks[c][k] EXCEPT !.pc = "updateSession"])
         /\ ev' = NoEv
         /\ UNCHANGED <<activeSession, elapsedTime, isPaused, loading, timerRef, intervals>>
    /\ UNCHANGED <<sessions, ops, abandonedSession, hasInitialized>> /\ Env /\ Pure

\* 1. insert the work_pauses row; if (pauseError) throw pauseError
PauseInsert(c, k) ==
    /\ At(c, k, "pause", "insertPause")
    /\ \E fault \in Faults :
         LET r == InsertPause(pauses, authed, tasks[c][k].sid, tasks[c][k].t) IN
         /\ Count(fault)
         /\ IF fault \/ ~r.ok
            THEN /\ PauseRollback(c, k)
                 /\ ev' = Ev(c, "pause", "resolve", "write")
                 /\ UNCHANGED pauses
            ELSE /\ pauses' = r.ps
                 /\ Goto(c, k, [tasks[c][k] EXCEPT !.pc = "updateSession"])
                 /\ ev' = NoEv
                 /\ UNCHANGED <<activeSession, elapsedTime, isPaused, loading, timerRef, intervals>>
    /\ UNCHANGED <<sessions, ops, abandonedSession, hasInitialized>> /\ Env /\ Pure

PauseUpdate(c, k) ==
    LET sid == tasks[c][k].sid IN
    /\ At(c, k, "pause", "updateSession")
    /\ \E fault \in Faults :
         LET r == UpdateSession(sessions, authed, sid, [sessions[sid] EXCEPT !.status = "paused"]) IN
         /\ Count(fault)
         /\ IF fault \/ ~r.ok
            THEN /\ PauseRollback(c, k)
                 /\ ev' = Ev(c, "pause", "resolve", "write")
                 /\ UNCHANGED sessions
            ELSE /\ sessions' = r.ss
                 /\ EnterLoad(c, k)
                 /\ ev' = NoEv
                 /\ UNCHANGED <<activeSession, elapsedTime, isPaused, timerRef, intervals>>
    /\ UNCHANGED <<pauses, ops, abandonedSession, hasInitialized>> /\ Env /\ Pure

\* ----------------------------------------------------------- resumeSession
ResumeGuard(c) == ~(activeSession[c].id = 0 \/ ~isPaused[c] \/ loading[c])

ResumeNoop(c) ==
    /\ ~ResumeGuard(c)
    /\ ev' = Ev(c, "resume", "noop", "guard")
    /\ UNCHANGED <<store, ops, faults, local, tasks>> /\ Env /\ Pure

ResumeInvoke(c) ==
    /\ ResumeGuard(c)
    /\ HasFree(c) /\ ops < MaxOps
    /\ Render(c, activeSession[c], FALSE, elapsedTime[c], TRUE, FALSE, timerRef[c])
    /\ Spawn(c, [Idle EXCEPT !.op = "resume", !.pc = "closePause",
                             !.sid = activeSession[c].id, !.t = now])
    /\ ops' = ops + 1
    /\ ev' = NoEv
    /\ UNCHANGED <<store, faults, abandonedSession, hasInitialized>> /\ Env /\ Pure

\* catch: setIsPaused(true); finally: setLoading(false)
ResumeRollback(c, k) ==
    /\ Render(c, activeSession[c], TRUE, elapsedTime[c], FALSE, FALSE, timerRef[c])
    /\ Finish(c, k)

ResumeClose(c, k) ==
    /\ At(c, k, "resume", "closePause")
    /\ \E fault \in Faults :
         /\ Count(fault)
         /\ IF fault
            THEN /\ ResumeRollback(c, k)
                 /\ ev' = Ev(c, "resume", "resolve", "write")
                 /\ UNCHANGED pauses
            ELSE /\ pauses' = ClosePauses(pauses, authed, tasks[c][k].sid, tasks[c][k].t)
                 /\ Goto(c, k, [tasks[c][k] EXCEPT !.pc = "updateSession"])
                 /\ ev' = NoEv
                 /\ UNCHANGED <<activeSession, elapsedTime, isPaused, loading, timerRef, intervals>>
    /\ UNCHANGED <<sessions, ops, abandonedSession, hasInitialized>> /\ Env /\ Pure

ResumeUpdate(c, k) ==
    LET sid == tasks[c][k].sid IN
    /\ At(c, k, "resume", "updateSession")
    /\ \E fault \in Faults :
         LET r == UpdateSession(sessions, authed, sid, [sessions[sid] EXCEPT !.status = "active"]) IN
         /\ Count(fault)
         /\ IF fault \/ ~r.ok
            THEN /\ ResumeRollback(c, k)
                 /\ ev' = Ev(c, "resume", "resolve", "write")
                 /\ UNCHANGED sessions
            ELSE /\ sessions' = r.ss
                 /\ EnterLoad(c, k)
                 /\ ev' = NoEv
                 /\ UNCHANGED <<activeSession, elapsedTime, isPaused, timerRef, intervals>>
    /\ UNCHANGED <<pauses, ops, abandonedSession, hasInitialized>> /\ Env /\ Pure

\* -------------------------------------------------------------- endSession
EndReject(c) ==
    /\ activeSession[c].id = 0
    /\ ev' = Ev(c, "end", "reject", "guard")
    /\ UNCHANGED <<store, ops, faults, local, tasks>> /\ Env /\ Pure

EndInvoke(c) ==
    /\ activeSession[c].id # 0
    /\ HasFree(c) /\ ops < MaxOps
    /\ timerRef' = [timerRef EXCEPT ![c] = FALSE]
    /\ intervals' = [intervals EXCEPT ![c] = IF timerRef[c] THEN @ - 1 ELSE @]
    /\ Spawn(c, [Idle EXCEPT !.op = "end", !.pc = "fetchPauses",
                             !.sid = activeSession[c].id,
                             !.start = activeSession[c].start_time])
    /\ ops' = ops + 1
    /\ ev' = NoEv
    /\ UNCHANGED <<store, faults, activeSession, elapsedTime, isPaused, loading,
                   abandonedSession, hasInitialized>> /\ Env /\ Pure

\* The pause list arrives (null when the read failed); the duration and the
\* end_time are computed from it and the update is sent.
EndFetch(c, k) ==
    LET t == tasks[c][k] IN
    /\ At(c, k, "end", "fetchPauses")
    /\ \E fault \in Faults :
         LET ps == IF fault THEN <<>> ELSE SelectPauses(pauses, authed, t.sid) IN
         /\ Count(fault)
         /\ Goto(c, k, [t EXCEPT !.pc = "updateSession", !.t = now,
                                 !.dur = formatTime(netWorkSeconds(t.start, ps, now))])
         /\ ev' = NoEv
    /\ UNCHANGED <<store, ops, local>> /\ Env /\ Pure

\* As EndThrow, had the local state been reset before the answer is looked at.
EndThrow_clears(c, k) ==
    /\ ev' = Ev(c, "end", "reject", "write")
    /\ Render(c, NoSession, FALSE, 0, loading[c], activeSession[c].id # 0, timerRef[c])
    /\ UNCHANGED sessions

\* if (error) throw error: the three setters are never reached.
EndThrow(c, k) ==
    /\ ev' = Ev(c, "end", "reject", "write")
    /\ UNCHANGED <<sessions, activeSession, elapsedTime, isPaused, loading, timerRef, intervals>>

EndUpdate(c, k) ==
    LET t == tasks[c][k] IN
    /\ At(c, k, "end", "updateSession")
    /\ \E fault \in Faults :
         LET r == UpdateSession(sessions, authed, t.sid,
                     [sessions[t.sid] EXCEPT !.end_time = t.t, !.status = "completed",
                                             !.total_duration = t.dur]) IN
         /\ Count(fault)
         /\ IF fault \/ ~r.ok
            THEN EndThrow(c, k)
            ELSE /\ sessions' = r.ss
                 /\ Render(c, NoSession, FALSE, 0, loading[c], activeSession[c].id # 0, timerRef[c])
                 /\ ev' = EvOn(c, "end", "resolve", "ok", t.sid)
         /\ Finish(c, k)
    /\ UNCHANGED <<pauses, ops, abandonedSession, hasInitialized>> /\ Env /\ Pure

\* ------------------------------------------ recoverSession, discardSession
RecoverNoop(c) ==
    /\ abandonedSession[c].id = 0
    /\ ev' = Ev(c, "recover", "noop", "guard")
    /\ UNCHANGED <<store, ops, faults, local, tasks>> /\ Env /\ Pure

RecoverInvoke(c) ==
    /\ abandonedSession[c].id # 0
    /\ HasFree(c) /\ ops < MaxOps
    /\ Spawn(c, [Idle EXCEPT !.op = "recover", !.pc = "updateSession",
                             !.sid = abandonedSession[c].id])
    /\ ops' = ops + 1
    /\ ev' = NoEv
    /\ UNCHANGED <<store, faults, local>> /\ Env /\ Pure

\* The answer of the update is not looked at.
RecoverUpdate(c, k) ==
    LET sid == tasks[c][k].sid IN
    /\ At(c, k, "recover", "updateSession")
    /\ \E fault \in Faults :
         LET r == UpdateSession(sessions, authed, sid, [sessions[sid] EXCEPT !.status = "active"]) IN
         /\ Count(fault)
         /\ sessions' = IF fault THEN sessions ELSE r.ss
         /\ ev' = NoEv
    /\ abandonedSession' = [abandonedSession EXCEPT ![c] = NoAbandoned]
    /\ EnterLoad(c, k)
    /\ UNCHANGED <<pauses, ops, activeSession, elapsedTime, isPaused, timerRef, intervals, hasInitialized>>
    /\ Env /\ Pure

DiscardNoop(c) ==
    /\ abandonedSession[c].id = 0
    /\ ev' = Ev(c, "discard", "noop", "guard")
    /\ UNCHANGED <<store, ops, faults, local, tasks>> /\ Env /\ Pure

DiscardInvoke(c) ==
    /\ abandonedSession[c].id # 0
    /\ HasFree(c) /\ ops < MaxOps
    /\ Spawn(c, [Idle EXCEPT !.op = "discard", !.pc = "updateSession",
                             !.sid = abandonedSession[c].id, !.t = now])
    /\ ops' = ops + 1
    /\ ev' = NoEv
    /\ UNCHANGED <<store, faults, local>> /\ Env /\ Pure

DiscardUpdate(c, k) ==
    LET t == tasks[c][k] IN
    /\ At(c, k, "discard", "updateSession")
    /\ \E fault \in Faults :
         LET r == UpdateSession(sessions, authed, t.sid,
                     [sessions[t.sid] EXCEPT !.status = "abandoned", !.end_time = t.t]) IN
         /\ Count(fault)
         /\ sessions' = IF fault THEN sessions ELSE r.ss
         /\ ev' = NoEv
    /\ abandonedSession' = [abandonedSession EXCEPT ![c] = NoAbandoned]
    /\ EnterLoad(c, k)
    /\ UNCHANGED <<pauses, ops, activeSession, elapsedTime, isPaused, timerRef, intervals, hasInitialized>>
    /\ Env /\ Pure

\* ------------------------------------------------- the interval, the clock
\* The interval callback: calculateElapsedTime(activeSession) of the render
\* in which the interval was set.
TickValue_increment(c) == elapsedTime[c] + 1

TickValue(c) ==
    calculateElapsedTime(activeSession[c].start_time, activeSession[c].work_pauses, now)

TimerTick(c) ==
    /\ timerRef[c]
    /\ elapsedTime' = [elapsedTime EXCEPT ![c] = TickValue(c)]
    /\ ev' = NoEv
    /\ UNCHANGED <<store, ops, faults, tasks, activeSession, isPaused, loading,
                   abandonedSession, timerRef, intervals, hasInitialized>> /\ Env /\ Pure

AdvanceClock ==
    /\ clock < MaxClock
    /\ \E d \in ClockSteps : now' = now + d
    /\ clock' = clock + 1
    /\ ev' = NoEv
    /\ UNCHANGED <<store, ops, faults, tasks, local, authed, slots>> /\ Pure

\* The hook is unmounted while none of its calls is in flight: the cleanup of
\* the timer effect runs and nothing can be called any more.
Unmount(c) ==
    /\ hasInitialized[c] /\ slots[c] > 0
    /\ \A k \in Slots : tasks[c][k].op = "idle"
    /\ slots' = [slots EXCEPT ![c] = 0]
    /\ timerRef' = [timerRef EXCEPT ![c] = FALSE]
    /\ intervals' = [intervals EXCEPT ![c] = EffectCleanup(@, timerRef[c])]
    /\ ev' = NoEv
    /\ UNCHANGED <<store, ops, faults, tasks, activeSession, elapsedTime, isPaused, loading,
                   abandonedSession, hasInitialized, now, clock, authed>> /\ Pure

\* The effects of the first render run before any handler can be called.
Mounted(c) == hasInitialized[c] /\ slots[c] > 0

\* The initialization effect, a call that goes in flight, an interval tick.
Calls(c) ==
    \/ InitEffect(c)
    \/ Mounted(c) /\ StartInvoke(c)
    \/ Mounted(c) /\ PauseInvoke(c)
    \/ Mounted(c) /\ ResumeInvoke(c)
    \/ Mounted(c) /\ EndInvoke(c)
    \/ Mounted(c) /\ RecoverInvoke(c)
    \/ Mounted(c) /\ DiscardInvoke(c)
    \/ TimerTick(c)

\* A call in flight resumes at its await.
Steps(c, k) ==
    \/ CheckGetUser(c, k) \/ CheckQuery(c, k)
    \/ LoadGetUser(c, k) \/ LoadQuery(c, k) \/ LoadApply(c, k)
    \/ StartGetUser(c, k) \/ StartInsert(c, k)
    \/ PauseInsert(c, k) \/ PauseUpdate(c, k)
    \/ ResumeClose(c, k) \/ ResumeUpdate(c, k)
    \/ EndFetch(c, k) \/ EndUpdate(c, k)
    \/ RecoverUpdate(c, k) \/ DiscardUpdate(c, k)

\* A call that its guard turns away at once.
Guards(c) ==
    \/ StartReject(c) \/ PauseNoop(c) \/ ResumeNoop(c) \/ EndReject(c)
    \/ RecoverNoop(c) \/ DiscardNoop(c)

\* Several tabs of one owner, each with one call in flight at a time.
Next ==
    \/ \E c \in Clients : Calls(c)
    \/ \E c \in Clients, k \in Slots : Steps(c, k)
    \/ AdvanceClock

Spec == Init /\ [][Next]_vars

\* One tab, whose calls may overlap, with the calls its guards turn away.
InitCtl ==
    /\ \E st \in InitStores : sessions = st.ss /\ pauses = st.ps /\ now = st.now
    /\ authed = TRUE
    /\ slots = [c \in Clients |-> IF c = 1 THEN NSlots ELSE 0]
    /\ InitLocal
    /\ fin = NoInput
    /\ fout = NoOutput

NextCtl ==
    \/ \E c \in Clients : Calls(c)
    \/ \E c \in Clients, k \in Slots : Steps(c, k)
    \/ \E c \in Clients : Mounted(c) /\ Guards(c)
    \/ \E c \in Clients : Unmount(c)
    \/ AdvanceClock

SpecCtl == InitCtl /\ [][NextCtl]_vars

\* supabase.auth.signOut(): from here on getUser() returns no user and the
\* policies hide every row.  Taken while no call is in flight.
SignOut ==
    /\ authed
    /\ \A c \in Clients, k \in Slots : tasks[c][k].op = "idle"
    /\ authed' = FALSE
    /\ ev' = NoEv
    /\ UNCHANGED <<store, ops, faults, tasks, local, now, clock, slots>> /\ Pure

\* A session left paused with its pause already closed: an earlier resume()
\* closed the pause and its update of the status failed.
HalfResumed ==
    [ss |-> <<[NewSession(0) EXCEPT !.status = "paused"]>>,
     ps |-> <<[session_id |-> 1, pause_start |-> 600000, pause_end |-> 900500]>>,
     now |-> 1800000]

\* One tab with one call at a time, the calls its guards turn away, and a
\* user who may sign out.
InitSolo ==
    /\ \E st \in InitStores \cup {HalfResumed} :
          sessions = st.ss /\ pauses = st.ps /\ now = st.now
    /\ authed = TRUE
    /\ slots = [c \in Clients |-> IF c = 1 THEN 1 ELSE 0]
    /\ InitLocal
    /\ fin = NoInput
    /\ fout = NoOutput

NextSolo ==
    \/ \E c \in Clients : Calls(c)
    \/ \E c \in Clients, k \in Slots : Steps(c, k)
    \/ \E c \in Clients : Mounted(c) /\ Guards(c)
    \/ SignOut
    \/ AdvanceClock

SpecSolo == InitSolo /\ [][NextSolo]_vars

\* Every awaited remote call is settled, with an answer or with an error.
SpecSoloLive == SpecSolo /\ \A c \in Clients, k \in Slots : WF_vars(Steps(c, k))

\* React runs the initialization effect again on the mounted hook (a remount
\* of StrictMode, a fast refresh): first the cleanup of the previous run,
\* hasInitialized.current = false, then the body, which finds the flag down,
\* raises it and calls checkAbandonedSessions.
InitEffectAgain(c) ==
    /\ Mounted(c)
    /\ HasFree(c)
    /\ hasInitialized' = [hasInitialized EXCEPT ![c] = TRUE]
    /\ Spawn(c, [Idle EXCEPT !.op = "init", !.pc = "getUser"])
    /\ ev' = NoEv
    /\ UNCHANGED <<store, ops, faults, activeSession, elapsedTime, isPaused, loading,
                   abandonedSession, timerRef, intervals>> /\ Env /\ Pure

\* One tab of an owner who only tries to close what is open, with end(),
\* recoverSession() and discardSession(), every remote call being answered
\* and none of them failing in transit.
InitClose ==
    /\ \E st \in InitStores \cup {HalfResumed} :
          sessions = st.ss /\ pauses = st.ps /\ now = st.now
    /\ authed = TRUE
    /\ slots = [c \in Clients |-> IF c = 1 THEN 1 ELSE 0]
    /\ activeSession = [c \in Clients |-> NoSession]
    /\ elapsedTime = [c \in Clients |-> 0]
    /\ isPaused = [c \in Clients |-> FALSE]
    /\ loading = [c \in Clients |-> TRUE]
    /\ abandonedSession = [c \in Clients |-> NoAbandoned]
    /\ timerRef = [c \in Clients |-> FALSE]
    /\ intervals = [c \in Clients |-> 0]
    /\ hasInitialized = [c \in Clients |-> FALSE]
    /\ tasks = [c \in Clients |-> [k \in Slots |-> Idle]]
    /\ ops = 0
    /\ faults = MaxFaults
    /\ clock = 0
    /\ ev = NoEv
    /\ fin = NoInput
    /\ fout = NoOutput

CloseCalls(c) ==
    \/ Mounted(c) /\ EndInvoke(c)
    \/ Mounted(c) /\ RecoverInvoke(c)
    \/ Mounted(c) /\ DiscardInvoke(c)

\* The owner is not limited in how often they call: the count of calls
\* bounds the exploration only, and starts again once every call is over.
CallAgain ==
    /\ ops = MaxOps
    /\ \A c \in Clients, k \in Slots : tasks[c][k].op = "idle"
    /\ ops' = 0
    /\ ev' = NoEv
    /\ UNCHANGED <<store, faults, tasks, local>> /\ Env /\ Pure

CloseSteps(c, k) ==
    \/ CheckGetUser(c, k) \/ CheckQuery(c, k)
    \/ LoadGetUser(c, k) \/ LoadQuery(c, k) \/ LoadApply(c, k)
    \/ EndFetch(c, k) \/ EndUpdate(c, k)
    \/ RecoverUpdate(c, k) \/ DiscardUpdate(c, k)

NextClose ==
    \/ \E c \in Clients : InitEffect(c)
    \/ \E c \in Clients : CloseCalls(c)
    \/ \E c \in Clients : TimerTick(c)
    \/ \E c \in Clients, k \in Slots : CloseSteps(c, k)
    \/ CallAgain
    \/ AdvanceClock

\* The effect runs, every awaited call is settled, and the owner goes on
\* calling whatever of the three can be called.
SpecClose ==
    /\ InitClose /\ [][NextClose]_vars
    /\ \A c \in Clients : WF_vars(InitEffect(c)) /\ WF_vars(CloseCalls(c))
    /\ \A c \in Clients, k \in Slots : WF_vars(CloseSteps(c, k))
    /\ WF_vars(CallAgain)

\* One tab whose effects React may run again.
NextStrict ==
    \/ NextSolo
    \/ \E c \in Clients : InitEffectAgain(c)

SpecStrict == InitSolo /\ [][NextStrict]_vars

\* ------------------------------------- the duration functions on their own
MaxLen == 2
PauseTimes == {0, 400, 1000, 2500}
StartTimes == {0, 1000}
EndTimes == {0, 1700, 3000}

PauseRows == [pause_start : PauseTimes, pause_end : PauseTimes \cup {Null}]

RECURSIVE SeqsUpTo(_, _)
SeqsUpTo(S, n) ==
    IF n = 0 THEN {<<>>}
    ELSE LET shorter == SeqsUpTo(S, n - 1)
         IN  shorter \cup {Append(q, x) : q \in shorter, x \in S}

\* 09:00-17:00 with pauses 12:00-12:30 and 15:00-15:15
Scenario ==
    [start |-> 9 * MsPerHour, end |-> 17 * MsPerHour,
     ps |-> <<[pause_start |-> 12 * MsPerHour, pause_end |-> 12 * MsPerHour + 1800000],
              [pause_start |-> 15 * MsPerHour, pause_end |-> 15 * MsPerHour + 900000]>>]

Inputs ==
    {Scenario} \cup [start : StartTimes, end : EndTimes, ps : SeqsUpTo(PauseRows, MaxLen)]

InitPure ==
    /\ sessions = <<>> /\ pauses = <<>> /\ now = 0
    /\ authed = TRUE
    /\ slots = [c \in Clients |-> 0]
    /\ InitLocal
    /\ fin \in Inputs
    /\ fout = NoOutput

Evaluate ==
    /\ ~fout.done
    /\ fout' = [done |-> TRUE,
                elapsed |-> calculateElapsedTime(fin.start, fin.ps, fin.end),
                net |-> netWorkSeconds(fin.start, fin.ps, fin.end),
                total |-> formatTime(netWorkSeconds(fin.start, fin.ps, fin.end)),
                duration |-> calculateDuration(fin.start, fin.end, fin.ps)]
    /\ UNCHANGED <<sessions, pauses, now, clock, authed, local, tasks, slots, ops, faults,
                   ev, fin>>

NextPure == Evaluate

SpecPure == InitPure /\ [][NextPure]_vars

\* ================================================================ claims
OpenPauses(sid) ==
    {i \in 1..Len(pauses) : pauses[i].session_id = sid /\ pauses[i].pause_end = Null}

Quiescent == \A c \in Clients, k \in Slots : tasks[c][k].op = "idle"

\* Sum of pause_end - pause_start over the closed pauses among the first n.
RECURSIVE SumClosed(_, _)
SumClosed(ps, n) ==
    IF n = 0 THEN 0
    ELSE SumClosed(ps, n - 1)
         + (IF ps[n].pause_end = Null THEN 0 ELSE ps[n].pause_end - ps[n].pause_start)

\* Sum of (pause_end or t) - pause_start over the first n pauses.
RECURSIVE SumUpTo(_, _, _)
SumUpTo(ps, n, t) ==
    IF n = 0 THEN 0
    ELSE SumUpTo(ps, n - 1, t)
         + ((IF ps[n].pause_end = Null THEN t ELSE ps[n].pause_end) - ps[n].pause_start)

OpenOnes(ps) == {i \in 1..Len(ps) : ps[i].pause_end = Null}

C2_OpenPauseIffPaused ==
    Quiescent =>
        \A sid \in 1..Len(sessions) :
            /\ Cardinality(OpenPauses(sid)) <= 1
            /\ (OpenPauses(sid) # {}) <=> (sessions[sid].status = "paused")

\* C3: pause() called again with no resume() in between adds no pause row:
\* a session never has two pauses with pause_end null.
C3_OneOpenPause ==
    \A sid \in 1..Len(sessions) : Cardinality(OpenPauses(sid)) <= 1

\* C4: the duration end() computes when the pause list arrives is the
\* formatted net time, now minus start_time minus every stored pause of the
\* session (an open pause lasting until now), floored to seconds and never
\* negative; the update that succeeds writes status completed, the end_time
\* and that duration together.
C4_EndWritesNetDuration ==
    [][\A c \in Clients, k \in Slots :
         LET t == tasks[c][k]
             ps == PausesOf(pauses, t.sid)
         IN  /\ (At(c, k, "end", "fetchPauses") /\ tasks'[c][k].pc = "updateSession") =>
                  tasks'[c][k].dur =
                    formatTime(Max(0, ((now - t.start) - SumUpTo(ps, Len(ps), now))
                                        \div MsPerSecond))
             /\ (/\ At(c, k, "end", "updateSession") /\ tasks'[c][k].op = "idle"
                 /\ ev' = EvOn(c, "end", "resolve", "ok", t.sid)) =>
                  sessions'[t.sid] = [sessions[t.sid] EXCEPT !.status = "completed",
                                                             !.end_time = t.t,
                                                             !.total_duration = t.dur]]_vars

\* C5: the elapsed seconds are never negative; with at most one open pause
\* they are the floor of now - start minus the closed pauses minus the time
\* since the open pause began, clamped at zero; with no pauses and now not
\* before start they are the whole seconds from start to now.
C5_ElapsedIsNetTime ==
    fout.done =>
        /\ fout.elapsed >= 0
        /\ Cardinality(OpenOnes(fin.ps)) <= 1 =>
             fout.elapsed =
               Max(0, ((fin.end - fin.start) - SumClosed(fin.ps, Len(fin.ps))
                        - (IF OpenOnes(fin.ps) = {} THEN 0
                           ELSE fin.end - fin.ps[CHOOSE i \in OpenOnes(fin.ps) : TRUE].pause_start))
                      \div MsPerSecond)
        /\ (fin.ps = <<>> /\ fin.end >= fin.start) =>
             fout.elapsed = (fin.end - fin.start) \div MsPerSecond

\* One closed and one open pause, and time left over.
C5_Witness ==
    /\ fout.done /\ fout.elapsed > 0
    /\ Len(fin.ps) = 2 /\ Cardinality(OpenOnes(fin.ps)) = 1

\* C6: calculateDuration is end - start minus each closed pause once, open
\* pauses left out, clamped at zero; with no pauses it is end - start.
C6_DurationIsNetOfClosedPauses ==
    fout.done =>
        /\ fout.duration = Max(0, (fin.end - fin.start) - SumClosed(fin.ps, Len(fin.ps)))
        /\ (fin.ps = <<>> /\ fin.end >= fin.start) => fout.duration = fin.end - fin.start

\* The test's session 09:00-17:00 with two pauses: 435 minutes.
C6_Witness == fout.done /\ fin = Scenario /\ fout.duration = 435 * 60 * MsPerSecond

\* C7: while a session is tracked, a start() puts no call in flight, and the
\* step in which it rejects changes neither the store nor the tab's state.
C7_StartWhileTrackedRejects ==
    [][\A c \in Clients :
         activeSession[c].id # 0 =>
           /\ \A k \in Slots : tasks'[c][k].op = "start" => tasks[c][k].op = "start"
           /\ ev' = Ev(c, "start", "reject", "guard") =>
                UNCHANGED <<sessions, pauses, local, tasks>>]_vars

C7_Witness == ev = Ev(1, "start", "reject", "guard") /\ activeSession[1].id # 0

\* C8: when the insert of start() is refused, start() rejects and the tab is
\* still in NoSession: no session tracked, not paused, no interval alive.
C8_RejectedStartStaysNoSession ==
    (ev.op = "start" /\ ev.why = "write") =>
        /\ ev.res = "reject"
        /\ activeSession[ev.c].id = 0
        /\ ~isPaused[ev.c]
        /\ ~timerRef[ev.c]

\* The trigger, not the network, refused the insert.
C8_Witness ==
    /\ ev.op = "start" /\ ev.why = "write" /\ faults = 0
    /\ OpenIds(sessions) # {} /\ activeSession[ev.c].id = 0

\* C9: when a write of pause() has failed and the call is over, isPaused is
\* false and the interval is alive again; when a write of resume() has
\* failed and the call is over, isPaused is true.
C9_RollbackOnFailure ==
    /\ (ev.op = "pause" /\ ev.why = "write") => (~isPaused[ev.c] /\ timerRef[ev.c])
    /\ (ev.op = "resume" /\ ev.why = "write") => isPaused[ev.c]

C9_Witness == ev.op = "pause" /\ ev.why = "write" /\ Len(pauses) > 0 /\ timerRef[ev.c]

\* C10: a pause() or resume() one of whose writes failed rejects.
C10_WriteErrorRejects ==
    (ev.op \in {"pause", "resume"} /\ ev.why = "write") => ev.res = "reject"

\* What a tab shows of its session: the tracked session, the flag, the seconds.
View(c) == <<activeSession[c], isPaused[c], elapsedTime[c]>>

Operations == {"start", "pause", "resume", "end", "recover", "discard"}
InFlight(c) == \E k \in Slots : tasks[c][k].op \in Operations

\* C12: while the tab is not Paused, or one of its operations is in flight,
\* a resume() puts no call in flight, and the step in which it returns
\* changes neither the store nor the tab's state.
C12_ResumeIsNoop ==
    [][\A c \in Clients :
         (activeSession[c].id = 0 \/ ~isPaused[c] \/ InFlight(c)) =>
           /\ \A k \in Slots : tasks'[c][k].op = "resume" => tasks[c][k].op = "resume"
           /\ ev' = Ev(c, "resume", "noop", "guard") =>
                UNCHANGED <<sessions, pauses, local, tasks>>]_vars

\* The whole seconds of work of a session up to instant t, its closed pauses
\* taken out.
WorkedUntil(sid, t) ==
    LET ps == PausesOf(pauses, sid)
    IN  Max(0, ((t - sessions[sid].start_time) - SumClosed(ps, Len(ps))) \div MsPerSecond)

\* The sessions of the initial store are at least half an hour old; a session
\* younger than that was begun by a start() of the run.
StartedInRun(sid) == \A age \in OldAges : now - sessions[sid].start_time < age

Stale(sid) == now - sessions[sid].start_time > StaleHours * MsPerHour
WholeHours(sid) ==
    NumToString((now - sessions[sid].start_time) \div MsPerHour)
      \o <<" ", "h", "o", "r", "a", "s">>

\* C14: when the query of the initialization is answered and the owner has
\* a stale open session, the tab publishes it as abandonedSession, with its
\* id and its age in whole hours, and tracks no session; and a tab never
\* tracks a stale session it holds as abandonedSession.
C14_StaleSessionIsFlagged ==
    [][\A c \in Clients :
         /\ \A k \in Slots :
              (At(c, k, "init", "query") /\ tasks'[c][k] # tasks[c][k] /\ ev'.why # "read") =>
                 \A sid \in OpenIds(sessions) :
                    Stale(sid) =>
                      /\ abandonedSession'[c] = [id |-> sid, timeMessage |-> WholeHours(sid)]
                      /\ activeSession'[c].id = 0
         /\ (abandonedSession[c].id # 0 /\ Stale(abandonedSession[c].id) =>
               activeSession[c].id # abandonedSession[c].id)']_vars

\* The session begun 25 hours ago is pending in the first tab.
C14_Witness ==
    /\ abandonedSession[1] = [id |-> 1, timeMessage |-> <<"2", "5", " ", "h", "o", "r", "a", "s">>]
    /\ activeSession[1].id = 0 /\ 1 \in OpenIds(sessions)

\* C15: when the query of the initialization is answered and the owner has
\* an open session that is not stale, the tab publishes no abandonedSession
\* and goes on to load the session; the load makes it the tracked session,
\* paused exactly when its stored status is paused.
C15_FreshSessionIsLoaded ==
    [][\A c \in Clients, k \in Slots :
         /\ (At(c, k, "init", "query") /\ tasks'[c][k] # tasks[c][k] /\ ev'.why # "read") =>
              \A sid \in OpenIds(sessions) :
                 ~Stale(sid) =>
                   /\ abandonedSession'[c].id = 0
                   /\ tasks'[c][k].pc = "loadGetUser"
         /\ (/\ At(c, k, "init", "loadApply") /\ tasks'[c][k].op = "idle"
             /\ ~tasks[c][k].derr /\ tasks[c][k].data.id # 0) =>
              /\ activeSession'[c] = tasks[c][k].data
              /\ isPaused'[c] = (tasks[c][k].data.status = "paused")]_vars

\* C16: when a recoverSession() on a pending session is over, the session's
\* stored status is active, the tab holds no abandonedSession, and it tracks
\* that session, not paused.
C16_RecoverMakesActive ==
    [][\A c \in Clients, k \in Slots :
         LET t == tasks[c][k] IN
         (t.op = "recover" /\ tasks'[c][k].op = "idle") =>
            /\ sessions'[t.sid].status = "active"
            /\ abandonedSession'[c].id = 0
            /\ activeSession'[c].id = t.sid
            /\ ~isPaused'[c]]_vars

\* C17: when a discardSession() on a pending session is over, the session's
\* stored status is abandoned, its end_time is the instant of the call, the
\* tab holds no abandonedSession and tracks no session.
C17_DiscardMakesAbandoned ==
    [][\A c \in Clients, k \in Slots :
         LET t == tasks[c][k] IN
         (t.op = "discard" /\ tasks'[c][k].op = "idle") =>
            /\ sessions'[t.sid].status = "abandoned"
            /\ sessions'[t.sid].end_time = t.t
            /\ abandonedSession'[c].id = 0
            /\ activeSession'[c].id = 0]_vars

\* C18: one controller instance never has more than one Ticker interval
\* alive, and one is alive only while a session is tracked and isPaused is
\* false: none while paused, with no session, or after teardown.
C18_OneTickerOnlyWhileActive ==
    \A c \in Clients :
        /\ intervals[c] \in {0, 1}
        /\ intervals[c] = 1 => activeSession[c].id # 0 /\ ~isPaused[c]
        /\ (hasInitialized[c] /\ slots[c] = 0) => intervals[c] = 0

\* A second interval was due: the effect ran again over a live interval.
C18_Witness ==
    /\ intervals[1] = 1 /\ timerRef[1] /\ ~isPaused[1] /\ activeSession[1].id # 0
    /\ ev.c = 1 /\ ev.op = "resume" /\ ev.res = "resolve" /\ ev.why = "ok"

\* The hook was torn down while its interval was alive.
C18_WitnessTeardown ==
    /\ hasInitialized[1] /\ slots[1] = 0 /\ intervals[1] = 0
    /\ activeSession[1].id # 0 /\ ~isPaused[1]

\* A mounted tab none of whose calls is in flight: nothing but a new call of
\* the user sets its flags from here on.
AtRest(c) == hasInitialized[c] /\ slots[c] > 0 /\ \A k \in Slots : tasks[c][k].op = "idle"

\* C19: the loading flag is never stuck: once the initialization and every
\* operation of a tab is over, however it ended, loading is false.
C19_LoadingNeverStuck ==
    \A c \in Clients : AtRest(c) => ~loading[c]

\* C20: on one controller no two state-changing operations (start, pause,
\* resume, end, recover, discard) are in flight at the same time: one invoked
\* while another is in flight issues no remote write.
C20_OneOperationInFlight ==
    \A c \in Clients :
        Cardinality({k \in Slots : tasks[c][k].op \in Operations}) <= 1

\* C21: a reload whose answer arrives after the controller has moved on does
\* not overwrite the newer state: when the answer carries a session that has
\* been completed since and the tab tracks no session, the tab still tracks
\* none afterwards.
C21_LateReloadKeepsNewerState ==
    [][\A c \in Clients, k \in Slots :
         LET t == tasks[c][k] IN
         (/\ t.pc = "loadApply" /\ tasks'[c][k].op = "idle"
          /\ t.data.id # 0 /\ sessions[t.data.id].status = "completed"
          /\ activeSession[c].id = 0) =>
            activeSession'[c].id = 0]_vars

\* C22: whenever no call of a tab is in flight and it tracks a session,
\* isPaused is true exactly when the stored status of that session is paused
\* and the tracked pause list is the stored pause list of the session.
C22_LocalMatchesStore ==
    \A c \in Clients :
        LET sid == activeSession[c].id IN
        (AtRest(c) /\ sid # 0) =>
            /\ isPaused[c] <=> sessions[sid].status = "paused"
            /\ activeSession[c].work_pauses = PausesOf(pauses, sid)

\* C23: no pause of a completed session has pause_end null: an end() that
\* succeeds on a paused session closes its open pause in the store.
C23_CompletedHasNoOpenPause ==
    \A sid \in 1..Len(sessions) :
        sessions[sid].status = "completed" => OpenPauses(sid) = {}

\* C24: once the stored status of a session is completed, no step of any
\* operation changes its stored total_duration.
C24_DurationImmutableOnceCompleted ==
    [][\A sid \in 1..Len(sessions) :
         sessions[sid].status = "completed" =>
            sessions'[sid].total_duration = sessions[sid].total_duration]_vars

\* C25: with no signed-in user, every operation that is over has rejected
\* for want of a user, and the step that ends it leaves the store as it was.
C25_UnauthenticatedRejects ==
    [][\A c \in Clients, k \in Slots :
         (~authed /\ tasks[c][k].op \in Operations /\ tasks'[c][k].op = "idle") =>
            /\ ev'.res = "reject" /\ ev'.why = "auth"
            /\ UNCHANGED <<sessions, pauses>>]_vars

\* C26: when the close-pause update of a resume() is answered and the store
\* holds no pause of the session with pause_end null, the resume() is over,
\* it has rejected, and isPaused is true again.
C26_ResumeWithoutOpenPauseFails ==
    [][\A c \in Clients, k \in Slots :
         LET t == tasks[c][k] IN
         (/\ At(c, k, "resume", "closePause") /\ tasks'[c][k] # t
          /\ faults' = faults /\ authed /\ OpenPauses(t.sid) = {}) =>
            /\ tasks'[c][k].op = "idle"
            /\ ev'.res = "reject"
            /\ isPaused'[c]]_vars

\* C27: when the update of an end() or a discardSession() that would close a
\* session more than MaxHours after its start is answered, the store has left
\* the row as it was, and the operation is over and has rejected.
C27_MaxDurationRejectionReachesCaller ==
    [][\A c \in Clients, k \in Slots :
         LET t == tasks[c][k] IN
         (/\ t.op \in {"end", "discard"} /\ t.pc = "updateSession" /\ tasks'[c][k] # t
          /\ faults' = faults /\ authed
          /\ t.t - sessions[t.sid].start_time > MaxHours * MsPerHour) =>
            /\ sessions' = sessions
            /\ tasks'[c][k].op = "idle"
            /\ ev'.c = c /\ ev'.op = t.op /\ ev'.res = "reject"]_vars

\* The awaits of loadActiveSession.
LoadPcs == {"loadGetUser", "loadQuery", "loadApply"}

\* C28: an initialization whose user is signed in and has no open session,
\* and whose check is answered, publishes no abandonedSession and goes on to
\* load; the load terminates, and when it is over, having found no session,
\* loading is false, no session is tracked and isPaused is false.
C28_InitWithoutSessionSettles ==
    /\ [][\A c \in Clients, k \in Slots :
            LET t == tasks[c][k]
                answered == tasks'[c][k] # t /\ faults' = faults /\ authed
            IN  /\ (At(c, k, "init", "getUser") /\ answered) => tasks'[c][k].pc = "query"
                /\ (At(c, k, "init", "query") /\ answered /\ OpenIds(sessions) = {}) =>
                      /\ tasks'[c][k].pc = "loadGetUser"
                      /\ abandonedSession'[c].id = 0
                /\ (/\ t.op = "init" /\ t.pc \in LoadPcs /\ tasks'[c][k].op = "idle"
                    /\ t.data.id = 0) =>
                      /\ ~loading'[c]
                      /\ activeSession'[c].id = 0
                      /\ ~isPaused'[c]]_vars
    /\ \A c \in Clients, k \in Slots :
          (tasks[c][k].op = "init" /\ tasks[c][k].pc \in LoadPcs) ~> (tasks[c][k].op # "init")

\* The initialization of the first tab is over: it looked for a session
\* twice and there is none.
C28_Witness ==
    /\ ev = Ev(1, "init", "resolve", "ok") /\ faults = 0 /\ authed
    /\ sessions = <<>>
    /\ ~loading[1] /\ activeSession[1].id = 0 /\ ~isPaused[1]

\* What a start() that has succeeded leaves behind, all but the seconds: one
\* more stored session, active, begun at the instant the insert was sent, the
\* other rows as they were; the tab tracks it, not paused, its interval alive.
StartedFrom(c, k) ==
    LET t == tasks[c][k]
        id == Len(sessions) + 1
    IN  /\ Len(sessions') = id
        /\ \A j \in 1..Len(sessions) : sessions'[j] = sessions[j]
        /\ sessions'[id] = [start_time |-> t.t, end_time |-> Null, status |-> "active",
                            total_duration |-> <<>>]
        /\ activeSession'[c] = [id |-> id, start_time |-> t.t, status |-> "active",
                                work_pauses |-> <<>>]
        /\ ~isPaused'[c]
        /\ timerRef'[c] /\ intervals'[c] = 1

StartSucceeds(c, k) ==
    /\ At(c, k, "start", "insert") /\ tasks'[c][k].op = "idle"
    /\ ev' = Ev(c, "start", "resolve", "ok")

\* C29: the insert of start() carries the instant at which it is sent as
\* start_time; when start() succeeds the store holds the new active session
\* with that start_time, the tab tracks it, not paused, with its interval
\* alive, and shows the whole seconds gone by since that instant.
C29_StartMakesActive ==
    [][\A c \in Clients, k \in Slots :
         /\ (At(c, k, "start", "getUser") /\ tasks'[c][k].pc = "insert") =>
               tasks'[c][k].t = now
         /\ StartSucceeds(c, k) =>
               /\ StartedFrom(c, k)
               /\ elapsedTime'[c] = (now - tasks[c][k].t) \div MsPerSecond]_vars

\* C29 as stated: when start() succeeds the elapsed time shown is zero.
C29_StartShowsZero ==
    [][\A c \in Clients, k \in Slots :
         StartSucceeds(c, k) => (StartedFrom(c, k) /\ elapsedTime'[c] = 0)]_vars

\* A start() answered a second after it was sent: the tab shows one second.
C29_Witness ==
    /\ ev = Ev(1, "start", "resolve", "ok") /\ faults = 0
    /\ activeSession[1].id # 0 /\ sessions[activeSession[1].id].status = "active"
    /\ now - activeSession[1].start_time = 1000
    /\ elapsedTime[1] = 1 /\ timerRef[1]

\* C30: resume() is sent from a paused tab and carries the instant of the
\* call; its first update gives that instant as pause_end to every open pause
\* of the session and touches no other pause, its second sets the stored
\* status to active; when it has succeeded the session is stored active with
\* no open pause, and the tab tracks the session as reloaded from the store,
\* not paused, not loading, its interval alive.
C30_ResumeMakesActive ==
    [][\A c \in Clients, k \in Slots :
         LET t == tasks[c][k] IN
         /\ (t.op = "idle" /\ tasks'[c][k].op = "resume") =>
               /\ isPaused[c] /\ activeSession[c].id # 0
               /\ tasks'[c][k].sid = activeSession[c].id /\ tasks'[c][k].t = now
         /\ (At(c, k, "resume", "closePause") /\ tasks'[c][k].pc = "updateSession" /\ authed) =>
               /\ Len(pauses') = Len(pauses)
               /\ \A i \in 1..Len(pauses) :
                     pauses'[i] = IF i \in OpenPauses(t.sid)
                                  THEN [pauses[i] EXCEPT !.pause_end = t.t] ELSE pauses[i]
         /\ (At(c, k, "resume", "updateSession") /\ tasks'[c][k].pc = "loadGetUser" /\ authed) =>
               sessions'[t.sid].status = "active"
         /\ (t.op = "resume" /\ tasks'[c][k].op = "idle" /\ ev' = Ev(c, "resume", "resolve", "ok")) =>
               /\ sessions[t.sid].status = "active" /\ OpenPauses(t.sid) = {}
               /\ activeSession'[c].id = t.sid
               /\ activeSession'[c].work_pauses = PausesOf(pauses, t.sid)
               /\ ~isPaused'[c] /\ ~loading'[c]
               /\ timerRef'[c] /\ intervals'[c] = 1]_vars

\* A resume() of a session begun and paused in the run has succeeded: its
\* pause is closed and the interval is alive.
C30_Witness ==
    LET sid == activeSession[1].id IN
    /\ ev = Ev(1, "resume", "resolve", "ok") /\ faults = 0
    /\ sid # 0 /\ StartedInRun(sid) /\ sessions[sid].status = "active"
    /\ PausesOf(pauses, sid) # <<>> /\ OpenPauses(sid) = {}
    /\ ~isPaused[1] /\ timerRef[1]

\* C31: the abandoned-session check runs once per controller: once the
\* initialization effect has run on a mounted tab, no step puts a second
\* check in flight.
C31_CheckRunsOnce ==
    [][\A c \in Clients, k \in Slots :
         (hasInitialized[c] /\ tasks'[c][k].op = "init") => tasks[c][k].op = "init"]_vars

\* C32: every stored session with an end_time has it strictly after its
\* start_time, and every stored pause with a pause_end has it strictly after
\* its pause_start.
C32_EndsStrictlyAfterStarts ==
    /\ \A sid \in 1..Len(sessions) :
          sessions[sid].end_time # Null => sessions[sid].end_time > sessions[sid].start_time
    /\ \A i \in 1..Len(pauses) :
          pauses[i].pause_end # Null => pauses[i].pause_end > pauses[i].pause_start

\* A step that only moves the seconds a tab shows: a tick of its interval.
Ticks(c) ==
    /\ elapsedTime'[c] # elapsedTime[c]
    /\ UNCHANGED <<sessions, pauses, now, tasks, activeSession, isPaused, loading,
                   abandonedSession, timerRef>>

\* C33: a tick sets the seconds shown to the net time of the tracked session
\* at that instant, now minus start_time minus the closed pauses of the
\* tracked pause list, in whole seconds, whatever was shown before; ticks
\* happen only in a tab that tracks a running session.
C33_TickRecomputes ==
    [][\A c \in Clients :
         Ticks(c) =>
            LET as == activeSession[c]
                ps == as.work_pauses
            IN  /\ as.id # 0 /\ ~isPaused[c]
                /\ OpenOnes(ps) = {} =>
                      elapsedTime'[c] =
                        Max(0, ((now - as.start_time) - SumClosed(ps, Len(ps))) \div MsPerSecond)
                /\ elapsedTime'[c] = calculateElapsedTime(as.start_time, ps, now)]_vars

\* After a pause and a resume the clock has moved and the interval has
\* ticked: the seconds shown are those of the tracked session at this instant.
C33_Witness ==
    LET as == activeSession[1] IN
    /\ as.id # 0 /\ ~isPaused[1] /\ timerRef[1] /\ AtRest(1)
    /\ as.work_pauses # <<>> /\ OpenOnes(as.work_pauses) = {}
    /\ clock > 0 /\ ev = NoEv
    /\ elapsedTime[1] = calculateElapsedTime(as.start_time, as.work_pauses, now)

\* The first remote call of pause() and of resume().
FirstWrite(op) == IF op = "pause" THEN "insertPause" ELSE "closePause"

\* C34: pause() sends its remote writes in the order insert the pause row,
\* update the status to paused, reload, and resume() in the order close the
\* open pause, update the status to active, reload: a call begins at its first
\* write, reaches the status update only from an answered first write, reaches
\* the reload only from an answered status update, touches the pause table
\* only in the first step and the session table only in the second, writes
\* nothing while it reloads, and a first write that fails ends the call with
\* both tables as they were.
C34_WritesInOrder ==
    [][\A c \in Clients, k \in Slots :
         LET t == tasks[c][k]
             u == tasks'[c][k]
         IN  /\ (u.op \in {"pause", "resume"} /\ t.op = "idle") => u.pc = FirstWrite(u.op)
             /\ (u.op \in {"pause", "resume"} /\ u.pc = "updateSession" /\ t.pc # "updateSession") =>
                    /\ t.op = u.op /\ t.pc = FirstWrite(u.op)
                    /\ faults' = faults /\ sessions' = sessions
                    /\ u.op = "pause" =>
                          /\ Len(pauses') = Len(pauses) + 1
                          /\ pauses'[Len(pauses')] =
                                [session_id |-> t.sid, pause_start |-> t.t, pause_end |-> Null]
             /\ (u.op \in {"pause", "resume"} /\ u.pc \in LoadPcs /\ t.pc \notin LoadPcs) =>
                    /\ t.op = u.op /\ t.pc = "updateSession"
                    /\ faults' = faults /\ pauses' = pauses
                    /\ sessions'[t.sid].status = IF u.op = "pause" THEN "paused" ELSE "active"
             /\ (t.op \in {"pause", "resume"} /\ t.pc = FirstWrite(t.op) /\ u.op = "idle") =>
                    /\ sessions' = sessions /\ pauses' = pauses
                    /\ ev'.c = c /\ ev'.op = t.op /\ ev'.why = "write"
             /\ (t.op \in {"pause", "resume"} /\ t.pc \in LoadPcs /\ u # t) =>
                    sessions' = sessions /\ pauses' = pauses]_vars

\* The insert of pause() in tab 1 failed: no pause row and no status update
\* reached the tables, and the call is over.
C34_Witness ==
    /\ ev = Ev(1, "pause", "resolve", "write") /\ faults = 1
    /\ pauses = <<>> /\ AtRest(1)
    /\ activeSession[1].id # 0 /\ sessions[activeSession[1].id].status = "active"
    /\ ~isPaused[1]

\* C35: the stored statuses completed and abandoned are terminal: a session
\* whose stored status is completed or abandoned keeps that status in every
\* step of every tab, whatever a tab that tracked or flagged it before it was
\* closed does afterwards.
C35_ClosedStatusIsTerminal ==
    [][\A sid \in 1..Len(sessions) :
         sessions[sid].status \in {"completed", "abandoned"} =>
            sessions'[sid].status = sessions[sid].status]_vars

\* C36: every open session can eventually be closed through the controller:
\* whenever the owner has a session with status active or paused, of whatever
\* age, an owner who keeps calling end, recoverSession and discardSession, with
\* no remote call failing in transit, reaches a state in which no session of
\* the owner is active or paused.
C36_OpenSessionGetsClosed ==
    (OpenIds(sessions) # {}) ~> (OpenIds(sessions) = {})

\* C37: whenever a tab tracks a session, is not paused and has no operation
\* in flight, its interval is alive; in particular after an end() that failed.
C37_ActiveAtRestTicks ==
    \A c \in Clients :
       (AtRest(c) /\ activeSession[c].id # 0 /\ ~isPaused[c]) => timerRef[c]

\* C38: a pending abandonedSession and a tracked activeSession never coexist
\* in a tab: while abandonedSession is set, activeSession is null.
C38_FlaggedAndTrackedExclude ==
    \A c \in Clients : abandonedSession[c].id # 0 => activeSession[c].id = 0

\* C39: the net seconds end() records agree with the live elapsed value: for
\* the same start, the same pause list and the same instant, the seconds that
\* end() formats into total_duration equal what calculateElapsedTime computes,
\* whatever the pause list, lists with several open pauses included.
C39_EndAgreesWithLive ==
    fout.done => fout.net = fout.elapsed

\* C40: end() never persists a total_duration computed without the stored
\* pauses: when the read of the session's pause list fails, end() fails there,
\* rejecting to its caller, and sends no update of the session.
C40_FailedPauseReadFailsEnd ==
    [][\A c \in Clients, k \in Slots :
         (At(c, k, "end", "fetchPauses") /\ tasks'[c][k] # tasks[c][k] /\ faults' = faults + 1) =>
            /\ tasks'[c][k].op = "idle"
            /\ ev'.c = c /\ ev'.op = "end" /\ ev'.res = "reject"]_vars

====
